---- MODULE Spec2Model ----
(***************************************************************************)
(* Car rental backend (src/main.py): the HTTP handlers over the document   *)
(* store, the document serializer and the demo fallback taken when the     *)
(* process starts without a store (db is None).                            *)
(*                                                                         *)
(* Values are tagged with their Python type: [kind, val].  Identifier      *)
(* strings (the "id", "_id" and "car_id" fields and path parameters) are   *)
(* tuples of one-character strings so that the ObjectId parser can look at *)
(* their length and digits; every other string is a TLA+ string.           *)
(***************************************************************************)
EXTENDS Integers, Sequences, FiniteSets, TLC

VARIABLES
    db,        \* "connected" or "none": database.db, fixed at process start
    car,       \* the "car" collection, in insertion (natural) order
    booking,   \* the "booking" collection, in insertion (natural) order
    nextOid,   \* how many identifiers the store has assigned so far
    req,       \* the request answered in the last step, until its response is sent
    resp,      \* its response
    wpc,       \* per worker: where its request stands between store round trips
    wreq,      \* per worker: the request in flight
    wloc,      \* per worker: the handler's local variables
    seeded     \* history: a seed request has completed

vars == <<db, car, booking, nextOid, req, resp, wpc, wreq, wloc, seeded>>

-----------------------------------------------------------------------------
(* Bounds of the model. *)

MaxBookings == 2
NumWorkers == 2

-----------------------------------------------------------------------------
(* Python values. *)

Str(s) == [kind |-> "str", val |-> s]
Num(n) == [kind |-> "num", val |-> n]
BoolV(b) == [kind |-> "bool", val |-> b]
ListV(l) == [kind |-> "list", val |-> l]
Oid(b) == [kind |-> "oid", val |-> b]
NoneV == [kind |-> "none", val |-> "None"]

IsNone(v) == v.kind = "none"

\* Python truthiness of an Optional[str] parameter: None and "" are falsy.
Truthy(v) == v.kind = "str" /\ v.val # ""

EmptyDict == [k \in {} |-> NoneV]

\* dict.pop(key) / del: the mapping without the key.
DictWithout(d, key) == [k \in DOMAIN d \ {key} |-> d[k]]

\* d[key] = v
DictSet(d, key, v) == [k \in DOMAIN d \cup {key} |-> IF k = key THEN v ELSE d[k]]

-----------------------------------------------------------------------------
(* bson.ObjectId: the bytes of an identifier, written as hexadecimal digits. *)

OidHexLen == 24

HexLower == <<"0", "1", "2", "3", "4", "5", "6", "7", "8", "9",
              "a", "b", "c", "d", "e", "f">>
HexUpper == <<"0", "1", "2", "3", "4", "5", "6", "7", "8", "9",
              "A", "B", "C", "D", "E", "F">>

HexDigits == {HexLower[i] : i \in 1..16} \cup {HexUpper[i] : i \in 1..16}

IsHexDigit(c) == c \in HexDigits

\* The value of each hexadecimal digit.
HexVals == [c \in HexDigits |-> (CHOOSE i \in 1..16 : HexLower[i] = c \/ HexUpper[i] = c) - 1]

HexVal(c) == HexVals[c]

\* The vertical tab, written as the character itself.
VerticalTab == ""

\* The characters bytes.fromhex skips: the six ASCII whitespace characters.
WhiteSpace == {" ", "\t", "\n", "\r", "\f", VerticalTab}

\* bytes.fromhex raises ValueError.
ValueError == <<-1>>

\* bytes.fromhex(s) from position i on: whitespace before a byte is skipped, then
\* two adjacent hexadecimal digits make one byte; anything else raises.
RECURSIVE FromHex(_, _)
FromHex(s, i) ==
    IF i > Len(s) THEN <<>>
    ELSE IF s[i] \in WhiteSpace THEN FromHex(s, i + 1)
    ELSE IF i < Len(s) /\ IsHexDigit(s[i]) /\ IsHexDigit(s[i + 1])
    THEN LET rest == FromHex(s, i + 2)
         IN  IF rest = ValueError THEN ValueError
             ELSE <<16 * HexVal(s[i]) + HexVal(s[i + 1])>> \o rest
    ELSE ValueError

BytesFromHex(s) == FromHex(s, 1)

\* ObjectId.is_valid on a str: 24 characters that bytes.fromhex accepts.  With
\* blanks among the 24 characters the bytes are fewer than twelve.
IsValidOid(s) == Len(s) = OidHexLen /\ BytesFromHex(s) # ValueError

\* ObjectId(s); the result is InvalidId when the constructor raises.
InvalidId == [kind |-> "exception", val |-> "InvalidId"]
ObjectId(s) ==
    LET b == BytesFromHex(s)
    IN  IF Len(s) = OidHexLen /\ b # ValueError THEN Oid(b) ELSE InvalidId

\* str(oid): the bytes as lower-case hexadecimal digits.
OidStr(o) ==
    [i \in 1..(2 * Len(o.val)) |->
        IF i % 2 = 1 THEN HexLower[(o.val[(i + 1) \div 2] \div 16) + 1]
                     ELSE HexLower[(o.val[i \div 2] % 16) + 1]]

\* The n-th identifier the store assigns (an identifier is never assigned twice).
StoreOid(n) == Oid([i \in 1..(OidHexLen \div 2) |-> IF i = OidHexLen \div 2 THEN n ELSE 0])

-----------------------------------------------------------------------------
(* serialize_doc *)

KeyError == [kind |-> "exception", val |-> "KeyError"]

IsException(d) == DOMAIN d = {"kind", "val"} /\ d.kind = "exception"
IsNoneDoc(d) == DOMAIN d = {"kind", "val"} /\ d.kind = "none"

\* "if not doc": None or the empty dict.
Falsy(d) == IsNoneDoc(d) \/ DOMAIN d = {}

StringifyOids(d) ==
    [k \in DOMAIN d |-> IF d[k].kind = "oid" THEN Str(OidStr(d[k])) ELSE d[k]]

\* The pop is missing: the record keeps its _id.
serialize_doc_keeps_id(doc) ==
    IF Falsy(doc) THEN doc
    ELSE IF "_id" \notin DOMAIN doc THEN KeyError
    ELSE StringifyOids(DictSet(doc, "id", Str(OidStr(doc["_id"]))))

serialize_doc(doc) ==
    IF Falsy(doc) THEN doc
    ELSE IF "_id" \notin DOMAIN doc THEN KeyError
    ELSE StringifyOids(DictSet(DictWithout(doc, "_id"), "id", Str(OidStr(doc["_id"]))))

-----------------------------------------------------------------------------
(* Documents of the "car" collection and of the demo fallback. *)

CarFields(brand, model, type, transmission, fuel_type, seats, luggage, mileage, price_per_day, popularity, images, features, description) ==
    [k \in {"brand", "model", "type", "transmission", "fuel_type", "seats", "luggage",
            "mileage", "price_per_day", "popularity", "images", "features",
            "available", "description"} |->
        CASE k = "brand" -> Str(brand)
          [] k = "model" -> Str(model)
          [] k = "type" -> Str(type)
          [] k = "transmission" -> Str(transmission)
          [] k = "fuel_type" -> Str(fuel_type)
          [] k = "seats" -> Num(seats)
          [] k = "luggage" -> Num(luggage)
          [] k = "mileage" -> Num(mileage)
          [] k = "price_per_day" -> Num(price_per_day)
          [] k = "popularity" -> Num(popularity)
          [] k = "images" -> ListV(images)
          [] k = "features" -> ListV(features)
          [] k = "available" -> BoolV(TRUE)
          [] k = "description" -> Str(description)]

ImgTesla == "https://images.unsplash.com/photo-1511390420183-3a2c5a36f3f1?q=80&w=1200&auto=format&fit=crop"
ImgBmw == "https://images.unsplash.com/photo-1619767886558-efdc259cde1c?q=80&w=1200&auto=format&fit=crop"
ImgToyota == "https://images.unsplash.com/photo-1549921296-3c2b3f6b33b5?q=80&w=1200&auto=format&fit=crop"

TeslaModel3 ==
    CarFields("Tesla", "Model 3", "sedan", "automatic", "electric", 5, 3, 12000, 89, 98,
              <<ImgTesla>>, <<"Autopilot", "Bluetooth", "A/C">>,
              "Sleek EV with long range and premium comfort.")
BmwX5 ==
    CarFields("BMW", "X5", "suv", "automatic", "hybrid", 5, 4, 24000, 129, 92,
              <<ImgBmw>>, <<"Panoramic Roof", "Leather", "GPS">>,
              "Luxury SUV perfect for family trips.")
ToyotaCorolla ==
    CarFields("Toyota", "Corolla", "sedan", "automatic", "petrol", 5, 3, 40000, 49, 85,
              <<ImgToyota>>, <<"Great MPG", "A/C", "USB">>,
              "Reliable and efficient daily driver.")

\* seed_demo_cars: the three records it inserts.
SeedCars == <<TeslaModel3, BmwX5, ToyotaCorolla>>

\* list_cars without a store: the two mocked records.
DemoCars ==
    << DictSet(TeslaModel3, "id", Str(<<"d", "e", "m", "o", "-", "1">>)),
       DictSet(BmwX5, "id", Str(<<"d", "e", "m", "o", "-", "2">>)) >>

\* get_car without a store: the mocked record, with the requested id.
DemoCar(car_id) ==
    DictSet(
        DictSet(
            CarFields("Tesla", "Model 3 Performance", "sedan", "automatic", "electric",
                      5, 3, 12000, 99, 99, <<ImgTesla, ImgToyota>>,
                      <<"Autopilot", "Heated Seats", "Premium Audio">>,
                      "Performance EV with thrilling acceleration."),
            "reviews",
            ListV(<< [user |-> "Alex", rating |-> 5, comment |-> "Amazing ride!"],
                     [user |-> "Sam", rating |-> 4, comment |-> "Very comfortable."] >>)),
        "id", Str(car_id))

\* list_bookings without a store: the mocked record.
DemoBookings ==
    << [k \in {"id", "user_id", "car_id", "pickup_location", "dropoff_location",
               "start_date", "end_date", "total_price", "status", "payment_status"} |->
          CASE k = "id" -> Str(<<"d", "e", "m", "o", "-", "b", "o", "o", "k", "-", "1">>)
            [] k = "user_id" -> Str("u1")
            [] k = "car_id" -> Str(<<"d", "e", "m", "o", "-", "1">>)
            [] k = "pickup_location" -> Str("Downtown")
            [] k = "dropoff_location" -> Str("Airport")
            [] k = "start_date" -> Str("2025-12-01")
            [] k = "end_date" -> Str("2025-12-05")
            [] k = "total_price" -> Num(356)
            [] k = "status" -> Str("confirmed")
            [] k = "payment_status" -> Str("paid")] >>

\* create_booking without a store: the mocked identifier.
DemoBookingId ==
    <<"d", "e", "m", "o", "-", "b", "o", "o", "k", "i", "n", "g", "-", "1", "2", "3">>

-----------------------------------------------------------------------------
(* The store: pymongo collections as sequences of documents. *)

\* A query is a mapping from field names to conditions: an exact value, or a
\* range with optional "$gte" and "$lte" bounds.
Eq(v) == [op |-> "eq", v |-> v]
Range(gte, lte) == [op |-> "range", gte |-> gte, lte |-> lte]

Holds(cond, v) ==
    IF cond.op = "eq" THEN v.kind = cond.v.kind /\ v.val = cond.v.val
    ELSE /\ v.kind = "num"
         /\ (IsNone(cond.gte) \/ v.val >= cond.gte.val)
         /\ (IsNone(cond.lte) \/ v.val <= cond.lte.val)

Matches(doc, query) ==
    \A f \in DOMAIN query : f \in DOMAIN doc /\ Holds(query[f], doc[f])

\* collection.find(query): the matching documents in natural order.
Find(coll, query) == SelectSeq(coll, LAMBDA d : Matches(d, query))

\* collection.find_one(query): the first match, or None.
FindOne(coll, query) ==
    LET found == Find(coll, query)
    IN  IF found = <<>> THEN NoneV ELSE Head(found)

\* collection.count_documents({})
CountDocuments(coll) == Len(coll)

\* The value a document sorts by: a missing field sorts as null, below every number.
SortKey(doc, field) ==
    IF field \in DOMAIN doc /\ doc[field].kind = "num" THEN doc[field].val ELSE -1

\* cursor.sort(field, direction).limit(n): the first n documents of every order
\* of the documents at positions S of docs that is sorted by the field; the
\* order among equal keys is not defined.
RECURSIVE SortedOrders(_, _, _, _, _)
SortedOrders(docs, S, field, direction, n) ==
    IF S = {} \/ n = 0 THEN {<<>>}
    ELSE UNION { { <<docs[i]>> \o t : t \in SortedOrders(docs, S \ {i}, field, direction, n - 1) } :
                 i \in { j \in S : \A k \in S :
                           direction * SortKey(docs[j], field)
                             <= direction * SortKey(docs[k], field) } }

\* cursor.limit(n)
Limit(docs, n) == SubSeq(docs, 1, IF n < Len(docs) THEN n ELSE Len(docs))

\* insert_one / insert_many: each document gets the next unused identifier.
WithIds(docs, n) == [i \in 1..Len(docs) |-> DictSet(docs[i], "_id", StoreOid(n + i))]

-----------------------------------------------------------------------------
(* Responses. *)

Ok(body) == [status |-> 200, body |-> body]

\* No response yet: the handler is still running.
NoResponse == [status |-> 0, body |-> EmptyDict]

\* raise HTTPException(status_code, detail)
HTTPException(code, detail) == [status |-> code, body |-> [detail |-> Str(detail)]]

\* {"items": items, "count": len(items)}
ItemsBody(items) == [items |-> ListV(items), count |-> Num(Len(items))]

SerializeAll(docs) == [i \in 1..Len(docs) |-> serialize_doc(docs[i])]

-----------------------------------------------------------------------------
(* list_cars *)

QueryFields(p) ==
    {f \in {"type", "brand", "transmission", "fuel_type"} : Truthy(p[f])}
      \cup (IF IsNone(p.seats_gte) THEN {} ELSE {"seats"})
      \cup (IF IsNone(p.min_price) /\ IsNone(p.max_price) THEN {} ELSE {"price_per_day"})

\* The upper price bound is left out of the query.
BuildQueryNoMax(p) ==
    [f \in QueryFields(p) |->
        CASE f = "seats" -> Range(p.seats_gte, NoneV)
          [] f = "price_per_day" -> Range(p.min_price, NoneV)
          [] OTHER -> Eq(p[f])]

\* The query list_cars builds from its parameters.
BuildQuery(p) ==
    [f \in QueryFields(p) |->
        CASE f = "seats" -> Range(p.seats_gte, NoneV)
          [] f = "price_per_day" -> Range(p.min_price, p.max_price)
          [] OTHER -> Eq(p[f])]

SortNames == {"price_asc", "price_desc", "popularity", "newest"}

sort_map(name) ==
    CASE name = "price_asc" -> <<"price_per_day", 1>>
      [] name = "price_desc" -> <<"price_per_day", -1>>
      [] name = "popularity" -> <<"popularity", -1>>
      [] name = "newest" -> <<"created_at", -1>>

\* The limit is applied before the sort.
CarCursorLimitFirst(p) ==
    LET found == Limit(Find(car, BuildQuery(p)), p.limit)
    IN  IF Truthy(p.sort) /\ p.sort.val \in SortNames
        THEN SortedOrders(found, 1..Len(found),
                          sort_map(p.sort.val)[1], sort_map(p.sort.val)[2], p.limit)
        ELSE {found}

\* find(query), then sort when the name is known, then limit: the results the
\* cursor can yield.
CarCursor(p) ==
    LET found == Find(car, BuildQuery(p))
    IN  IF Truthy(p.sort) /\ p.sort.val \in SortNames
        THEN SortedOrders(found, 1..Len(found),
                          sort_map(p.sort.val)[1], sort_map(p.sort.val)[2], p.limit)
        ELSE {Limit(found, p.limit)}

\* The responses list_cars can give to the parameters p.
list_cars(p) ==
    IF db = "none"
    THEN {Ok(ItemsBody(Limit(DemoCars, p.limit)))}
    ELSE {Ok(ItemsBody(SerializeAll(c))) : c \in CarCursor(p)}

-----------------------------------------------------------------------------
(* get_car *)

get_car(car_id) ==
    IF db = "none" THEN Ok(DemoCar(car_id))
    ELSE LET oid == ObjectId(car_id)
             doc == FindOne(car, [_id |-> Eq(oid)])
         IN  IF oid.kind = "exception" THEN HTTPException(400, "Invalid car id")
             ELSE IF Falsy(doc) THEN HTTPException(404, "Car not found")
             ELSE Ok(serialize_doc(doc))

-----------------------------------------------------------------------------
(* create_booking *)

\* payload.model_dump() of a BookingRequest
BookingRequest(user_id, car_id, notes) ==
    [k \in {"user_id", "car_id", "pickup_location", "dropoff_location",
            "start_date", "end_date", "total_price", "notes"} |->
        CASE k = "user_id" -> Str(user_id)
          [] k = "car_id" -> Str(car_id)
          [] k = "pickup_location" -> Str("Downtown")
          [] k = "dropoff_location" -> Str("Airport")
          [] k = "start_date" -> Str("2025-12-01")
          [] k = "end_date" -> Str("2025-12-05")
          [] k = "total_price" -> Num(356)
          [] k = "notes" -> notes]

\* {"id": "demo-booking-123", "status": "pending", **payload.model_dump()}
DemoBooking(payload) ==
    [k \in DOMAIN payload \cup {"id", "status"} |->
        IF k \in DOMAIN payload THEN payload[k]
        ELSE IF k = "id" THEN Str(DemoBookingId) ELSE Str("pending")]

\* database.create_document(collection, data): the record is stored with the
\* identifier the store assigns.  The result is the collection afterwards and the
\* identifier as a string.
create_document(coll, data, n) ==
    [coll |-> coll \o WithIds(<<data>>, n), inserted_id |-> OidStr(StoreOid(n + 1))]

\* The lookup has lost its filter: any car is found.
BookedCarUnfiltered(car_oid) == FindOne(car, EmptyDict)

\* The car create_booking looks up before it inserts: None when absent.
BookedCar(car_oid) == FindOne(car, [_id |-> Eq(car_oid)])

\* The handler up to and including the car lookup, its first store round trip:
\* the response when the handler ends there, NoResponse when it goes on to insert.
create_booking(payload) ==
    LET car_oid == ObjectId(payload["car_id"].val) IN
    IF db = "none" THEN Ok(DemoBooking(payload))
    ELSE IF car_oid.kind = "exception" THEN HTTPException(400, "Invalid car id")
    ELSE IF Falsy(BookedCar(car_oid)) THEN HTTPException(404, "Car not found")
    ELSE NoResponse

-----------------------------------------------------------------------------
(* list_bookings *)

BookingQuery(user_id) ==
    IF Truthy(user_id) THEN [user_id |-> Eq(user_id)] ELSE EmptyDict

list_bookings(user_id, limit) ==
    IF db = "none"
    THEN {Ok(ItemsBody(Limit(DemoBookings, limit)))}
    ELSE LET found == Find(booking, BookingQuery(user_id))
         IN  {Ok(ItemsBody(SerializeAll(o))) :
                o \in SortedOrders(found, 1..Len(found), "created_at", -1, limit)}

-----------------------------------------------------------------------------
(* seed_demo_cars *)

\* The count check is missing: every call goes on to insert.
seed_demo_cars_unchecked ==
    IF db = "none"
    THEN Ok([status |-> Str("no-db"),
             message |-> Str("Database not configured in this environment")])
    ELSE NoResponse

\* The handler up to and including count_documents, its first store round trip:
\* the response when the handler ends there, NoResponse when it goes on to insert.
seed_demo_cars ==
    IF db = "none"
    THEN Ok([status |-> Str("no-db"),
             message |-> Str("Database not configured in this environment")])
    ELSE IF CountDocuments(car) > 0
    THEN Ok([status |-> Str("ok"), message |-> Str("Cars already exist")])
    ELSE NoResponse

-----------------------------------------------------------------------------
(* Inputs and the initial store. *)

\* A 24-character identifier string: zeros, then the two given characters.
HexId(c1, c2) ==
    [i \in 1..OidHexLen |-> IF i = OidHexLen - 1 THEN c1 ELSE IF i = OidHexLen THEN c2 ELSE "0"]

\* 24 characters: twenty zeros, a blank, the two given characters, a blank.
BlankId(c1, c2) ==
    [i \in 1..OidHexLen |->
        IF i = OidHexLen - 2 THEN c1 ELSE IF i = OidHexLen - 1 THEN c2
        ELSE IF i <= OidHexLen - 4 THEN "0" ELSE " "]

\* 24 characters: two vertical tabs, then 22 zeros.
TabbedId == [i \in 1..OidHexLen |-> IF i <= 2 THEN VerticalTab ELSE "0"]

\* 24 hexadecimal digits (in lower and in upper case), 24 digits never assigned,
\* 24 characters with blanks or vertical tabs around digit pairs, 24 characters that are not all
\* hexadecimal, and too short.
CarIdInputs ==
    { HexId("0", "1"), HexId("a", "1"), HexId("A", "1"), HexId("f", "f"),
      BlankId("a", "1"), TabbedId, HexId("0", "g"), <<"d", "e", "m", "o", "-", "1">> }

BookingPayloads ==
    {BookingRequest("u1", c, NoneV) : c \in {HexId("0", "1"), BlankId("a", "1"), HexId("0", "g")}}
      \cup {BookingRequest("u2", HexId("A", "1"), Str("child seat"))}

\* Every combination of the filters with every sort by a stored field and an
\* unknown sort name; and the sort by creation time, which no stored car has.
ListCarsParams ==
    [type : {NoneV, Str("sedan")},
     brand : {NoneV, Str("BMW"), Str("")},
     transmission : {NoneV, Str("manual")},
     fuel_type : {NoneV, Str("electric")},
     seats_gte : {NoneV, Num(5)},
     min_price : {NoneV, Num(60)},
     max_price : {NoneV, Num(100)},
     sort : {NoneV, Str("price_asc"), Str("price_desc"), Str("popularity"), Str("rating")},
     limit : {2, 50}]
      \cup
    [type : {NoneV}, brand : {NoneV, Str("BMW")}, transmission : {NoneV}, fuel_type : {NoneV},
     seats_gte : {NoneV}, min_price : {NoneV}, max_price : {NoneV},
     sort : {Str("newest")}, limit : {2}]

\* The list-cars requests sent while bookings are being made.
ReadParams ==
    [type : {NoneV}, brand : {NoneV}, transmission : {NoneV}, fuel_type : {NoneV},
     seats_gte : {NoneV}, min_price : {NoneV}, max_price : {Num(100)},
     sort : {NoneV, Str("price_asc")}, limit : {2}]

UserIdInputs == {NoneV, Str("u1"), Str("")}
LimitInputs == {1, 50}

\* Cars a store can hold from an earlier run: records of the Car schema.
EarlierCars ==
    << CarFields("Ford", "Transit", "van", "manual", "diesel", 9, 8, 80000, 60, 40,
                 <<>>, <<"Sliding Door">>, "Roomy van."),
       CarFields("Mazda", "MX-5", "convertible", "manual", "petrol", 2, 1, 30000, 60, 70,
                 <<>>, <<"Soft Top">>, "Open-air roadster."),
       CarFields("BMW", "i4", "sedan", "automatic", "electric", 5, 3, 5000, 110, 92,
                 <<>>, <<"GPS">>, "Electric gran coupe.") >>

\* The earlier cars as stored: their identifiers end in a1, a2, a3.
EarlierStore ==
    [i \in 1..Len(EarlierCars) |->
        DictSet(EarlierCars[i], "_id", ObjectId(HexId("a", HexLower[i + 1])))]

Workers == 1..NumWorkers

Idle == [op |-> "idle"]

Init ==
    /\ db \in {"connected", "none"}
    /\ car \in IF db = "connected" THEN {<<>>, EarlierStore} ELSE {<<>>}
    /\ nextOid = 0
    /\ booking = <<>>
    /\ seeded = FALSE
    /\ req = Idle
    /\ resp = NoResponse
    /\ wpc = [w \in Workers |-> "idle"]
    /\ wreq = [w \in Workers |-> Idle]
    /\ wloc = [w \in Workers |-> NoneV]

-----------------------------------------------------------------------------
(* The handlers run in a thread pool: a handler holds the store for one round *)
(* trip at a time, and other requests run between its round trips.  The       *)
(* read-only handlers make one round trip.  req and resp hold the request     *)
(* answered in the last step and its response; the response has gone out by   *)
(* the time a handler makes its next round trip.                              *)

workerVars == <<wpc, wreq, wloc>>
storeVars == <<db, car, booking, nextOid>>

ListCars(params) ==
    /\ req = Idle
    /\ \E p \in params : \E r \in list_cars(p) :
         /\ req' = [op |-> "list_cars", p |-> p]
         /\ resp' = r
    /\ UNCHANGED <<storeVars, workerVars, seeded>>

GetCar ==
    /\ req = Idle
    /\ \E car_id \in CarIdInputs :
         /\ req' = [op |-> "get_car", car_id |-> car_id]
         /\ resp' = get_car(car_id)
    /\ UNCHANGED <<storeVars, workerVars, seeded>>

ListBookings ==
    /\ req = Idle
    /\ \E user_id \in UserIdInputs, limit \in LimitInputs :
         \E r \in list_bookings(user_id, limit) :
           /\ req' = [op |-> "list_bookings", user_id |-> user_id, limit |-> limit]
           /\ resp' = r
    /\ UNCHANGED <<storeVars, workerVars, seeded>>

\* The response goes out.
Reply ==
    /\ req # Idle
    /\ req' = Idle
    /\ resp' = NoResponse
    /\ UNCHANGED <<storeVars, workerVars, seeded>>

\* A response held until now has gone out.
Sent == req' = Idle /\ resp' = NoResponse

\* The handler ends in this step, answering the request q with r.
Answer(q, r) == req' = q /\ resp' = r

\* Worker w's handler goes on to its next round trip at pc, serving request q.
GoOn(w, pc, q) ==
    /\ wpc' = [wpc EXCEPT ![w] = pc]
    /\ wreq' = [wreq EXCEPT ![w] = q]
    /\ Sent

\* Worker w's handler has ended: the thread is free again.
Free(w) ==
    /\ wpc' = [wpc EXCEPT ![w] = "idle"]
    /\ wreq' = [wreq EXCEPT ![w] = Idle]
    /\ wloc' = [wloc EXCEPT ![w] = NoneV]

\* The bookings stored and those about to be stored stay within the bound.
RoomForBooking ==
    Len(booking) + Cardinality({v \in Workers : wpc[v] = "booking_insert"}) < MaxBookings

\* create_booking up to its first round trip: the identifier is parsed and the
\* car looked up.
BookingFindCar(w) ==
    /\ wpc[w] = "idle"
    /\ \E payload \in BookingPayloads :
         LET q == [op |-> "create_booking", payload |-> payload]
             r == create_booking(payload)
         IN  IF r.status # 0 THEN Answer(q, r) /\ UNCHANGED <<wpc, wreq>>
             ELSE RoomForBooking /\ GoOn(w, "booking_insert", q)
    /\ UNCHANGED <<storeVars, wloc, seeded>>

\* create_booking's second round trip: create_document.
BookingInsert(w) ==
    /\ wpc[w] = "booking_insert"
    /\ LET ins == create_document(booking, wreq[w].payload, nextOid) IN
         /\ booking' = ins.coll
         /\ nextOid' = nextOid + 1
         /\ wloc' = [wloc EXCEPT ![w] = Str(ins.inserted_id)]
    /\ GoOn(w, "booking_fetch", wreq[w])
    /\ UNCHANGED <<db, car, seeded>>

\* create_booking's third round trip: the created record is read back.
BookingFetch(w) ==
    /\ wpc[w] = "booking_fetch"
    /\ Answer(wreq[w], Ok(serialize_doc(FindOne(booking, [_id |-> Eq(ObjectId(wloc[w].val))]))))
    /\ Free(w)
    /\ UNCHANGED <<storeVars, seeded>>

\* seed_demo_cars up to its first round trip: count_documents.
SeedCount(w) ==
    /\ wpc[w] = "idle"
    /\ IF seed_demo_cars.status # 0
       THEN Answer([op |-> "seed"], seed_demo_cars) /\ seeded' = TRUE /\ UNCHANGED <<wpc, wreq>>
       ELSE GoOn(w, "seed_insert", [op |-> "seed"]) /\ UNCHANGED seeded
    /\ UNCHANGED <<storeVars, wloc>>

\* seed_demo_cars' second round trip: insert_many.
SeedInsert(w) ==
    /\ wpc[w] = "seed_insert"
    /\ car' = car \o WithIds(SeedCars, nextOid)
    /\ nextOid' = nextOid + Len(SeedCars)
    /\ Answer(wreq[w], Ok([status |-> Str("ok"), inserted |-> Num(Len(SeedCars))]))
    /\ Free(w)
    /\ seeded' = TRUE
    /\ UNCHANGED <<db, booking>>

\* Clients that browse and seed the car collection.
Next ==
    \/ ListCars(ListCarsParams)
    \/ GetCar
    \/ Reply
    \/ \E w \in Workers : SeedCount(w) \/ SeedInsert(w)

Spec == Init /\ [][Next]_vars

\* Clients that book, seed and read.
BookingNext ==
    \/ ListCars(ReadParams)
    \/ GetCar
    \/ ListBookings
    \/ Reply
    \/ \E w \in Workers :
        \/ BookingFindCar(w)
        \/ BookingInsert(w)
        \/ BookingFetch(w)
        \/ SeedCount(w)
        \/ SeedInsert(w)

BookingSpec == Init /\ [][BookingNext]_vars

-----------------------------------------------------------------------------
(* Properties. *)

Connected == db = "connected"

\* The store's identifier format: 24 hexadecimal digits.
WellFormed(id) == Len(id) = OidHexLen /\ \A i \in 1..Len(id) : IsHexDigit(id[i])

\* The cars the identifier string names: those whose _id is the parsed identifier.
CarsNamed(id) ==
    LET oid == ObjectId(id)
    IN  IF oid.kind = "exception" THEN {} ELSE {i \in 1..Len(car) : car[i]["_id"] = oid}

AlreadyExist == [status |-> Str("ok"), message |-> Str("Cars already exist")]

\* A handler ends in this step without another round trip to come, answering a
\* request with this operation.
Answers(op) == req'.op = op /\ wpc' = wpc

\* The payloads of the create_booking requests taken up in this step.
BookingsTaken ==
    {wreq'[w].payload : w \in {v \in Workers : wpc[v] = "idle" /\ wpc'[v] = "booking_insert"}}
      \cup (IF Answers("create_booking") THEN {req'.payload} ELSE {})

\* What C1 says of the request: 400 for a car_id that is not well-formed, 404 for
\* one that names no car; the handler ends there and the booking collection stays
\* as it was.
RejectsUnknownCar(payload) ==
    LET id == payload["car_id"].val
        ends == Answers("create_booking") /\ req'.payload = payload /\ booking' = booking
    IN  /\ ~WellFormed(id) => ends /\ resp'.status = 400
        /\ WellFormed(id) /\ CarsNamed(id) = {} => ends /\ resp'.status = 404

\* C1 as stated: every create-booking request whose car_id names no car of the
\* store is answered 404 (400 when the car_id is not well-formed) and creates no
\* booking.
C1_Original == [][\A payload \in BookingsTaken : RejectsUnknownCar(payload)]_vars

\* What C2 promises of a successful create-booking response.
EchoesBooking(payload, r) ==
    /\ r.status = 200
    /\ DOMAIN payload \subseteq DOMAIN r.body
    /\ \A k \in DOMAIN payload : r.body[k] = payload[k]
    /\ "id" \in DOMAIN r.body /\ r.body["id"].kind = "str"
    /\ "status" \in DOMAIN r.body /\ r.body["status"] = Str("pending")

\* C2 as stated: a create-booking request whose car_id names an existing car is
\* answered with every submitted field, a string id and status "pending", with
\* the store connected and in the demo fallback alike.
C2_Claim ==
    (req.op = "create_booking"
        /\ (db = "none" \/ CarsNamed(req.payload["car_id"].val) # {}))
      => EchoesBooking(req.payload, resp)

\* A seed request is taken up in this step.
SeedTaken ==
    \/ \E w \in Workers : wpc[w] = "idle" /\ wpc'[w] = "seed_insert"
    \/ Answers("seed")

\* A seed request inserts in this step.
SeedInserts == \E w \in Workers : wpc[w] = "seed_insert" /\ wpc'[w] = "idle"

\* What C3 says of seed requests that do not overlap: a request that starts
\* after another has completed reports that cars already exist, ends there and
\* leaves the collection as it was; a request that inserts before any has
\* completed leaves three cars.
SeedIdempotent ==
    /\ SeedTaken /\ seeded => Answers("seed") /\ resp'.body = AlreadyExist /\ car' = car
    /\ SeedInserts /\ ~seeded => Len(car') = 3

\* C3 as stated: from any store state, every seed call after the first reports
\* that cars already exist and leaves the car collection unchanged.
C3_Original == [][SeedIdempotent]_vars

\* C3 amended: the same, with the store connected.
C3_SeedIdempotent == [][Connected => SeedIdempotent]_vars

C3_Witness ==
    /\ Connected /\ seeded /\ Len(car) = 3 /\ car[1]["_id"] = StoreOid(1)
    /\ req.op = "seed" /\ resp.body = AlreadyExist

\* A read request with this operation is answered in this step.
ReadStep(op) == req = Idle /\ req'.op = op

\* What C4 says of the response r to a get-car request for id.
GetCarContract(id, r) ==
    /\ ~WellFormed(id) => r.status = 400
    /\ WellFormed(id) /\ CarsNamed(id) = {} => r.status = 404
    /\ r.status = 200 =>
         \E i \in CarsNamed(id) :
            /\ r.body["id"] = Str(OidStr(car[i]["_id"]))
            /\ \A k \in DOMAIN car[i] \ {"_id"} : r.body[k] = car[i][k]

\* C4 as stated: every get-car request is answered 400 for an id that is not
\* well-formed, 404 for a well-formed id naming no car, and with a car only when
\* that car exists.
C4_Original == [][ReadStep("get_car") => GetCarContract(req'.car_id, resp')]_vars

\* A filter counts as supplied when it is not None; with emptyCounts false an
\* empty string counts as not supplied.
Supplied(v, emptyCounts) == IF emptyCounts THEN ~IsNone(v) ELSE Truthy(v)

\* The object (a response item or a stored car) meets every supplied filter of p.
Satisfies(p, obj, emptyCounts) ==
    /\ \A f \in {"type", "brand", "transmission", "fuel_type"} :
         Supplied(p[f], emptyCounts) => obj[f] = p[f]
    /\ ~IsNone(p.seats_gte) => obj["seats"].val >= p.seats_gte.val
    /\ ~IsNone(p.min_price) => obj["price_per_day"].val >= p.min_price.val
    /\ ~IsNone(p.max_price) => obj["price_per_day"].val <= p.max_price.val

Items == resp.body.items.val

\* C5 as stated: every item of a list-cars response meets every supplied filter.
C5_Original ==
    req.op = "list_cars" => \A i \in 1..Len(Items) : Satisfies(req.p, Items[i], TRUE)

\* C5 amended: with the store connected, every item of a list-cars response meets
\* every supplied filter, an empty string filter counting as not supplied.
C5_FiltersHold ==
    req.op = "list_cars" /\ Connected =>
        \A i \in 1..Len(Items) : Satisfies(req.p, Items[i], FALSE)

C5_Witness ==
    /\ Connected /\ req.op = "list_cars" /\ Len(car) = 3
    /\ ~IsNone(req.p.type) /\ ~IsNone(req.p.min_price) /\ ~IsNone(req.p.max_price)
    /\ Len(Items) = 1

\* The stored cars that meet the filters of p.
Matching(p) == {j \in 1..Len(car) : Satisfies(p, car[j], FALSE)}

\* The stored cars the items stand for.
Returned(items) == {j \in 1..Len(car) : \E i \in 1..Len(items) :
                       items[i]["id"] = Str(OidStr(car[j]["_id"]))}

PriceOf(obj) == obj["price_per_day"].val

\* The items are in price order (direction 1 ascending, -1 descending) and are
\* the first `limit` of the matching cars in that order.
FirstBySortedPrice(p, items, direction) ==
    /\ \A i \in 1..(Len(items) - 1) :
         direction * PriceOf(items[i]) <= direction * PriceOf(items[i + 1])
    /\ Len(items) = IF p.limit < Cardinality(Matching(p)) THEN p.limit
                    ELSE Cardinality(Matching(p))
    /\ Returned(items) \subseteq Matching(p) /\ Cardinality(Returned(items)) = Len(items)
    /\ \A j \in Matching(p) \ Returned(items) : \A i \in 1..Len(items) :
         direction * PriceOf(items[i]) <= direction * PriceOf(car[j])

\* What C6 says of the response r to a list-cars request with parameters p.
PriceSortContract(p, r) ==
    /\ p.sort = Str("price_asc") => FirstBySortedPrice(p, r.body.items.val, 1)
    /\ p.sort = Str("price_desc") => FirstBySortedPrice(p, r.body.items.val, -1)

\* C6 as stated: a list-cars response to sort=price_asc (price_desc) is in
\* non-decreasing (non-increasing) price order and holds the first `limit` items
\* of the set of cars that match when the store is read.
C6_Original == [][ReadStep("list_cars") => PriceSortContract(req'.p, resp')]_vars

\* C6 amended: the same, with the store connected.
C6_SortedBeforeLimit ==
    [][ReadStep("list_cars") /\ Connected => PriceSortContract(req'.p, resp')]_vars

C6_Witness ==
    /\ Connected /\ req.op = "list_cars" /\ req.p.sort = Str("price_desc")
    /\ Cardinality(Matching(req.p)) = 3 /\ Len(Items) = 2
    /\ PriceOf(Items[1]) > PriceOf(Items[2])

SerializeTwiceOk(r) ==
    /\ ~IsException(serialize_doc(serialize_doc(r)))
    /\ serialize_doc(serialize_doc(r)) = serialize_doc(r)

\* C7 as stated: serializing the serialized form of any stored record succeeds
\* and gives the serialized form again.
C7_Claim ==
    /\ \A i \in 1..Len(car) : SerializeTwiceOk(car[i])
    /\ \A i \in 1..Len(booking) : SerializeTwiceOk(booking[i])

\* The object has a string id, no _id, and no value that is a raw identifier.
Exposed(obj) ==
    /\ "id" \in DOMAIN obj /\ obj["id"].kind = "str"
    /\ "_id" \notin DOMAIN obj
    /\ \A k \in DOMAIN obj : obj[k].kind # "oid"

\* The object is a record of the collection with _id renamed to id and written
\* as a string, and every other field as stored.
FromStore(obj, coll) ==
    \E i \in 1..Len(coll) :
        /\ obj["id"] = Str(OidStr(coll[i]["_id"]))
        /\ DOMAIN obj = (DOMAIN coll[i] \ {"_id"}) \cup {"id"}
        /\ \A k \in DOMAIN coll[i] \ {"_id"} : obj[k] = coll[i][k]

GoodObject(obj, coll) == Exposed(obj) /\ (Connected => FromStore(obj, coll))

\* C8: every object returned by list cars, get car, create booking and list
\* bookings, whatever other requests are in flight, has a string id, no _id
\* field and no raw identifier value, and carries the other fields of the stored
\* record unchanged.
C8_ReturnedObjects ==
    /\ req.op = "list_cars" => \A i \in 1..Len(Items) : GoodObject(Items[i], car)
    /\ req.op = "list_bookings" => \A i \in 1..Len(Items) : GoodObject(Items[i], booking)
    /\ req.op = "get_car" /\ resp.status = 200 => GoodObject(resp.body, car)
    /\ req.op = "create_booking" /\ resp.status = 200 => GoodObject(resp.body, booking)

\* A booking is listed while the request that created it is still unanswered,
\* in a store that holds six cars after two racing seed requests.
C8_Witness ==
    /\ Connected /\ req.op = "list_bookings" /\ Len(Items) >= 1 /\ Len(car) = 6
    /\ \E w \in Workers : wpc[w] = "booking_fetch" /\ Items[1]["id"] = wloc[w]

\* C9: with the store connected, under any interleaving of the handlers' round
\* trips, every stored booking's car_id names a car of the car collection.
C9_NoDanglingBooking ==
    \A i \in 1..Len(booking) : CarsNamed(booking[i]["car_id"].val) # {}

C9_Witness == Len(booking) >= 1 /\ \E w \in Workers : wpc[w] = "seed_insert"

\* The car collection was empty when the process started.  Each request that
\* reports having inserted has added its three records, so a second such report
\* comes with more than three cars in the collection.
StartedEmpty ==
    \A i \in 1..Len(car) : \A j \in 1..Len(EarlierStore) :
        car[i]["_id"] # EarlierStore[j]["_id"]

ReportsInserted(r) == r.status = 200 /\ "inserted" \in DOMAIN r.body

\* C10 as stated: with the store connected and the car collection empty at the
\* start, concurrent seed requests never leave more than the three demo cars,
\* and at most one of them reports having inserted records.
C10_Claim ==
    StartedEmpty =>
        /\ Len(car) <= Len(SeedCars)
        /\ req.op = "seed" /\ ReportsInserted(resp) => Len(car) = Len(SeedCars)

====
